---- MODULE Spec2Model ----
(***************************************************************************)
(* A model of the two-player UNO game of improved_uno_game.py.             *)
(*                                                                         *)
(* A Card object is a card identity (an index into the list built by       *)
(* Deck._create_deck); its rank never changes, its colour is the mutable   *)
(* attribute Card.colour and is kept in the variable colour.  The deck,    *)
(* the hands and the discard pile are the lists of the program.            *)
(*                                                                         *)
(* random.shuffle may leave the list in any order.  The orders explored    *)
(* are the cuts of the list, read forwards or backwards (see Shuffles): a  *)
(* sample of the n! orders, all of them for a list of up to three cards.   *)
(*                                                                         *)
(* The deck is scaled down: COLOURS and the number ranks are prefixes of   *)
(* the program's tuples (NumColours, MaxNumber), with Copies cards of each *)
(* coloured rank above "0" and WildCopies cards of each wild rank.         *)
(***************************************************************************)
EXTENDS Integers, Sequences, FiniteSets, TLC

\* ------------------------------------------------------------------ bounds
\* Cards dealt to each player by _setup_game (range(7) in the program).
HandSize == 2
\* Number of play_turn calls explored per game.
MaxTurns == 5
\* COLOURS is cut to its first NumColours entries (4 in the program).
NumColours == 2
\* The number ranks are "0" .. MaxNumber ("0" .. "9" in the program).
MaxNumber == 1
\* Cards of each coloured rank other than "0" (2 in the program).
Copies == 1
\* Cards of each wild rank (4 in the program).
WildCopies == 1

\* --------------------------------------------------------------- constants
NumPlayers == 2
None == 0
NoPlayer == NumPlayers
BLACK == "BLACK"

\* COLOURS, RANKS, WILD_RANKS (lines 7-9), scaled down.
COLOURS == SubSeq(<<"RED", "GREEN", "BLUE", "YELLOW">>, 1, NumColours)
NUMBER_RANKS ==
    SubSeq(<<"0", "1", "2", "3", "4", "5", "6", "7", "8", "9">>, 1, MaxNumber + 1)
ACTION_RANKS == <<"Skip", "Reverse", "Draw2">>
RANKS == NUMBER_RANKS \o ACTION_RANKS
WILD_RANKS == <<"Wild", "Draw4">>

Range(s) == {s[i] : i \in DOMAIN s}

\* Card.__init__: a wild rank gets the colour BLACK whatever is passed.
Card(colour_, rank_) ==
    [rank |-> rank_,
     colour |-> IF rank_ \notin Range(WILD_RANKS) THEN colour_ ELSE BLACK]

RECURSIVE Flatten(_)
Flatten(ss) == IF ss = <<>> THEN <<>> ELSE Head(ss) \o Flatten(Tail(ss))

\* Deck._create_deck: per colour the "0" and the other ranks, then the wilds.
create_deck ==
    Flatten([i \in DOMAIN COLOURS |->
               <<Card(COLOURS[i], "0")>> \o
               Flatten([j \in 1..(Len(RANKS) - 1) |->
                          [k \in 1..Copies |-> Card(COLOURS[i], RANKS[j + 1])]])])
    \o Flatten([j \in DOMAIN WILD_RANKS |->
                  [k \in 1..WildCopies |-> Card(None, WILD_RANKS[j])]])

Cards == DOMAIN create_deck
TotalCards == Len(create_deck)
Rank(c) == create_deck[c].rank

VARIABLES
    deck,                  \* Deck.cards of UnoGame.deck
    discard_pile,          \* UnoGame.discard_pile
    colour,                \* Card.colour of every card
    players,               \* players[i] is Player.cards of UnoGame.players[i]
    current_player_index,
    turn_direction,
    game_over,
    pc,                    \* where __init__ / main stand
    first_card,            \* the local first_card of _setup_initial_discard
    turns,                 \* play_turn calls made
    log                    \* what the last play_turn did, step by step

vars == <<deck, discard_pile, colour, players, current_player_index,
          turn_direction, game_over, pc, first_card, turns, log>>

Fields == {"deck", "discard_pile", "colour", "players",
           "current_player_index", "turn_direction", "game_over"}

\* The game object as a record, threaded through the methods below.
Game == [deck |-> deck, discard_pile |-> discard_pile, colour |-> colour,
         players |-> players, current_player_index |-> current_player_index,
         turn_direction |-> turn_direction, game_over |-> game_over,
         log |-> log]

Snap(g) == [f \in Fields |-> g[f]]

\* One step of a play_turn, with the game before and after it.  For "draw"
\* (a call of _draw_cards) n is num_cards and got is cards_drawn.
Event(g, ev, p, card, n, pre) ==
    [g EXCEPT !.log =
        Append(@, [ev |-> ev, p |-> p, card |-> card, n |-> n,
                   got |-> Len(g.players[IF p = NoPlayer THEN 0 ELSE p])
                           - Len(pre.players[IF p = NoPlayer THEN 0 ELSE p]),
                   pre |-> pre, post |-> Snap(g)])]

\* ------------------------------------------------------------------- Card
is_wild(c) == Rank(c) \in Range(WILD_RANKS)
is_action(c) == Rank(c) \in Range(ACTION_RANKS) \/ Rank(c) \in Range(WILD_RANKS)
is_number(c) == Rank(c) \in Range(NUMBER_RANKS)

\* Faulty variant: anything may be played on a wild, whatever colour it was
\* given.
can_play_on_any_on_wild(col, c, other) ==
    \/ col[c] = col[other]
    \/ Rank(c) = Rank(other)
    \/ Rank(c) \in Range(WILD_RANKS)
    \/ Rank(other) \in Range(WILD_RANKS)

can_play_on(col, c, other) ==
    \/ col[c] = col[other]
    \/ Rank(c) = Rank(other)
    \/ Rank(c) \in Range(WILD_RANKS)

\* Faulty variant: the colour of a wild is left as it was played.
reset_wild_colour_never(col, c) == col[c]

reset_wild_colour(col, c) == IF is_wild(c) THEN BLACK ELSE col[c]

\* ------------------------------------------------------------------- Deck
\* The list s cut at b and read forwards (a = 1) or backwards (a = -1).
Reorder(s, a, b) ==
    [i \in 1..Len(s) |-> s[((a * (i - 1) + b) % Len(s)) + 1]]

\* Deck.shuffle / random.shuffle: the orders the list may be left in.
Shuffles(s) ==
    IF s = <<>> THEN {<<>>}
    ELSE {Reorder(s, a, b) : a \in {1, -1}, b \in 0..(Len(s) - 1)}

\* Deck.deal: the card popped (None on an empty deck) and the list left.
deal(d) ==
    IF d = <<>> THEN [card |-> None, cards |-> d]
    ELSE [card |-> d[Len(d)], cards |-> SubSeq(d, 1, Len(d) - 1)]

\* ----------------------------------------------------------------- Player
IsHuman(p) == p = 0

get_playable_cards(g, p, top) ==
    SelectSeq(g.players[p], LAMBDA c : can_play_on(g.colour, c, top))

RECURSIVE Remove(_, _)
Remove(s, c) ==
    IF s = <<>> THEN <<>>
    ELSE IF Head(s) = c THEN Tail(s) ELSE <<Head(s)>> \o Remove(Tail(s), c)

\* Faulty variant: has_won taken for has_uno.
has_won_at_uno(g, p) == Len(g.players[p]) <= 1

has_won(g, p) == Len(g.players[p]) = 0

First(s) == IF s = <<>> THEN None ELSE s[1]

\* Faulty variant: a number card of any colour goes before an action card of
\* the top card's colour.
computer_choose_card_numbers_first(g, playable, top) ==
    LET same_colour_cards ==
            SelectSeq(playable,
                      LAMBDA c : g.colour[c] = g.colour[top] /\ ~is_wild(c))
        number_cards == SelectSeq(playable, is_number)
        action_cards ==
            SelectSeq(playable, LAMBDA c : is_action(c) /\ ~is_wild(c))
        wild_cards == SelectSeq(playable, is_wild)
    IN  IF playable = <<>> THEN None
        ELSE IF number_cards # <<>> THEN number_cards[1]
        ELSE IF same_colour_cards # <<>> THEN same_colour_cards[1]
        ELSE IF action_cards # <<>> THEN action_cards[1]
        ELSE First(wild_cards)

\* ComputerPlayer.choose_card_to_play
computer_choose_card(g, playable, top) ==
    LET same_colour_cards ==
            SelectSeq(playable,
                      LAMBDA c : g.colour[c] = g.colour[top] /\ ~is_wild(c))
        number_cards == SelectSeq(playable, is_number)
        action_cards ==
            SelectSeq(playable, LAMBDA c : is_action(c) /\ ~is_wild(c))
        wild_cards == SelectSeq(playable, is_wild)
        same_colour_numbers == SelectSeq(same_colour_cards, is_number)
    IN  IF playable = <<>> THEN None
        ELSE IF same_colour_cards # <<>>
             THEN IF same_colour_numbers # <<>> THEN same_colour_numbers[1]
                  ELSE same_colour_cards[1]
        ELSE IF number_cards # <<>> THEN number_cards[1]
        ELSE IF action_cards # <<>> THEN action_cards[1]
        ELSE First(wild_cards)

\* Faulty variant: the human's choice is not checked with can_play_on.
human_choose_any_card(g, p, top) == Range(g.players[p]) \cup {None}

\* HumanPlayer.choose_card_to_play: any card of the hand that passes
\* can_play_on, or None for 'd'; rejected inputs are asked again.
human_choose_card(g, p, top) ==
    {c \in Range(g.players[p]) : can_play_on(g.colour, c, top)} \cup {None}

\* Faulty variant: the computer may also decline to play and draw.
choose_card_to_play_may_pass(g, p, playable, top) ==
    IF IsHuman(p) THEN human_choose_card(g, p, top)
    ELSE {computer_choose_card(g, playable, top), None}

choose_card_to_play(g, p, playable, top) ==
    IF IsHuman(p) THEN human_choose_card(g, p, top)
    ELSE {computer_choose_card(g, playable, top)}

colour_count(g, p, col) ==
    Cardinality({i \in DOMAIN g.players[p] : g.colour[g.players[p][i]] = col})

\* Faulty variant: a later key with an equal count replaces the best so far.
RECURSIVE max_key_last(_, _, _, _)
max_key_last(g, p, best, i) ==
    IF i > Len(COLOURS) THEN best
    ELSE max_key_last(g, p,
                      IF colour_count(g, p, COLOURS[i]) >= colour_count(g, p, best)
                      THEN COLOURS[i] ELSE best,
                      i + 1)

\* max(colour_counts, key=colour_counts.get): the keys are visited in the
\* order of COLOURS from the i-th on, and only a greater count replaces best.
RECURSIVE max_key(_, _, _, _)
max_key(g, p, best, i) ==
    IF i > Len(COLOURS) THEN best
    ELSE max_key(g, p,
                 IF colour_count(g, p, COLOURS[i]) > colour_count(g, p, best)
                 THEN COLOURS[i] ELSE best,
                 i + 1)

\* ComputerPlayer.choose_wild_colour
computer_choose_wild_colour(g, p) ==
    IF \A i \in DOMAIN COLOURS : colour_count(g, p, COLOURS[i]) = 0
    THEN COLOURS[1]
    ELSE max_key(g, p, COLOURS[1], 2)

choose_wild_colour(g, p) ==
    IF IsHuman(p) THEN Range(COLOURS) ELSE {computer_choose_wild_colour(g, p)}

should_play_drawn_card(g, p, card, top) ==
    IF IsHuman(p)
    THEN IF can_play_on(g.colour, card, top) THEN {TRUE, FALSE} ELSE {FALSE}
    ELSE {can_play_on(g.colour, card, top)}

\* ---------------------------------------------------------------- UnoGame
get_top_card(g) ==
    IF g.discard_pile = <<>> THEN None ELSE g.discard_pile[Len(g.discard_pile)]

next_index(g) == (g.current_player_index + g.turn_direction) % NumPlayers

next_player(g) == [g EXCEPT !.current_player_index = next_index(g)]

\* Faulty variant: the cards go back into the deck with the colour they have.
add_cards_keeps_colour(g, cards) == [g EXCEPT !.deck = @ \o cards]

\* Deck.add_cards
add_cards(g, cards) ==
    [g EXCEPT !.colour = [c \in Cards |->
                            IF c \in Range(cards) THEN reset_wild_colour(g.colour, c)
                            ELSE g.colour[c]],
              !.deck = @ \o cards]

\* Faulty variant: line 292 left out, the top card is dropped and the pile
\* keeps the cards that went into the deck.
reshuffle_deck_keeps_pile(g) ==
    IF Len(g.discard_pile) <= 1
    THEN {[ok |-> FALSE, g |-> Event(g, "reshuffle_failed", NoPlayer, None, 0, Snap(g))]}
    ELSE LET rest == SubSeq(g.discard_pile, 1, Len(g.discard_pile) - 1)
             g1 == add_cards(g, rest)
         IN  {[ok |-> TRUE,
               g |-> Event([g1 EXCEPT !.deck = d, !.discard_pile = rest],
                           "reshuffle", NoPlayer, None, 0, Snap(g))] :
                d \in Shuffles(g1.deck)}

\* Faulty variant: the top card is not held aside, the whole pile goes into
\* the deck.
reshuffle_deck_takes_top(g) ==
    IF Len(g.discard_pile) <= 1
    THEN {[ok |-> FALSE, g |-> Event(g, "reshuffle_failed", NoPlayer, None, 0, Snap(g))]}
    ELSE LET g1 == add_cards(g, g.discard_pile)
         IN  {[ok |-> TRUE,
               g |-> Event([g1 EXCEPT !.deck = d, !.discard_pile = <<>>],
                           "reshuffle", NoPlayer, None, 0, Snap(g))] :
                d \in Shuffles(g1.deck)}

\* Faulty variant: "< 1" for "<= 1", a pile of one card is reshuffled.
reshuffle_deck_off_by_one(g) ==
    IF Len(g.discard_pile) < 1
    THEN {[ok |-> FALSE, g |-> Event(g, "reshuffle_failed", NoPlayer, None, 0, Snap(g))]}
    ELSE LET top_card == g.discard_pile[Len(g.discard_pile)]
             rest == SubSeq(g.discard_pile, 1, Len(g.discard_pile) - 1)
             g1 == add_cards(g, rest)
         IN  {[ok |-> TRUE,
               g |-> Event([g1 EXCEPT !.deck = d, !.discard_pile = <<top_card>>],
                           "reshuffle", NoPlayer, None, 0, Snap(g))] :
                d \in Shuffles(g1.deck)}

\* UnoGame._reshuffle_deck: the outcomes [ok, g], one per order of the shuffle.
reshuffle_deck(g) ==
    IF Len(g.discard_pile) <= 1
    THEN {[ok |-> FALSE, g |-> Event(g, "reshuffle_failed", NoPlayer, None, 0, Snap(g))]}
    ELSE LET top_card == g.discard_pile[Len(g.discard_pile)]
             rest == SubSeq(g.discard_pile, 1, Len(g.discard_pile) - 1)
             g1 == add_cards(g, rest)
         IN  {[ok |-> TRUE,
               g |-> Event([g1 EXCEPT !.deck = d, !.discard_pile = <<top_card>>],
                           "reshuffle", NoPlayer, None, 0, Snap(g))] :
                d \in Shuffles(g1.deck)}

\* card = self.deck.deal(); if card: player.add_card(card)
deal_to(g, p) ==
    LET r == deal(g.deck)
        g1 == [g EXCEPT !.deck = r.cards, !.players[p] = Append(@, r.card)]
    IN  IF r.card = None THEN g ELSE Event(g1, "deal", p, r.card, 1, Snap(g))

\* The loop of UnoGame._draw_cards: every state it can end in.
RECURSIVE draw_loop(_, _, _)
draw_loop(g, p, n) ==
    IF n = 0 THEN {g}
    ELSE UNION {IF ~r.ok THEN {r.g} ELSE draw_loop(deal_to(r.g, p), p, n - 1) :
                  r \in IF g.deck = <<>> THEN reshuffle_deck(g)
                        ELSE {[ok |-> TRUE, g |-> g]}}

\* UnoGame._draw_cards
draw_cards(g, p, num_cards) ==
    {Event(g1, "draw", p, None, num_cards, Snap(g)) :
        g1 \in draw_loop(g, p, num_cards)}

\* The value the last _draw_cards returned.
cards_drawn(g) == g.log[Len(g.log)].got

\* Faulty variant: the colour is asked of the next player.
handle_wild_card_asks_next(g, card) ==
    UNION {
        LET top_card == get_top_card(g)
            g1 == IF top_card # None
                  THEN [g EXCEPT !.colour[top_card] = new_colour] ELSE g
            g2 == Event(g1, "colour", g.current_player_index, top_card, 0, Snap(g))
        IN  IF Rank(card) = "Draw4"
            THEN {next_player(g3) : g3 \in draw_cards(g2, next_index(g2), 4)}
            ELSE {g2}
        : new_colour \in choose_wild_colour(g, next_index(g))}

\* UnoGame._handle_wild_card
handle_wild_card(g, card) ==
    UNION {
        LET top_card == get_top_card(g)
            g1 == IF top_card # None
                  THEN [g EXCEPT !.colour[top_card] = new_colour] ELSE g
            g2 == Event(g1, "colour", g.current_player_index, top_card, 0, Snap(g))
        IN  IF Rank(card) = "Draw4"
            THEN {next_player(g3) : g3 \in draw_cards(g2, next_index(g2), 4)}
            ELSE {g2}
        : new_colour \in choose_wild_colour(g, g.current_player_index)}

\* Faulty variant: Draw2 makes the player who played it draw.
handle_action_card_draws_self(g, card) ==
    IF Rank(card) = "Skip" THEN {next_player(g)}
    ELSE IF Rank(card) = "Reverse"
         THEN LET g1 == [g EXCEPT !.turn_direction = @ * (-1)]
              IN  IF NumPlayers = 2 THEN {next_player(g1)} ELSE {g1}
    ELSE IF Rank(card) = "Draw2"
         THEN {next_player(g1) : g1 \in draw_cards(g, g.current_player_index, 2)}
    ELSE IF is_wild(card) THEN handle_wild_card(g, card)
    ELSE {g}

\* Faulty variant: Skip does not move the pointer.
handle_action_card_no_skip(g, card) ==
    IF Rank(card) = "Skip" THEN {g}
    ELSE IF Rank(card) = "Reverse"
         THEN LET g1 == [g EXCEPT !.turn_direction = @ * (-1)]
              IN  IF NumPlayers = 2 THEN {next_player(g1)} ELSE {g1}
    ELSE IF Rank(card) = "Draw2"
         THEN {next_player(g1) : g1 \in draw_cards(g, next_index(g), 2)}
    ELSE IF is_wild(card) THEN handle_wild_card(g, card)
    ELSE {g}

\* Faulty variant: Reverse only flips the direction, also with two players.
handle_action_card_reverse_only_flips(g, card) ==
    IF Rank(card) = "Skip" THEN {next_player(g)}
    ELSE IF Rank(card) = "Reverse"
         THEN {[g EXCEPT !.turn_direction = @ * (-1)]}
    ELSE IF Rank(card) = "Draw2"
         THEN {next_player(g1) : g1 \in draw_cards(g, next_index(g), 2)}
    ELSE IF is_wild(card) THEN handle_wild_card(g, card)
    ELSE {g}

\* UnoGame._handle_action_card
handle_action_card(g, card) ==
    IF Rank(card) = "Skip" THEN {next_player(g)}
    ELSE IF Rank(card) = "Reverse"
         THEN LET g1 == [g EXCEPT !.turn_direction = @ * (-1)]
              IN  IF NumPlayers = 2 THEN {next_player(g1)} ELSE {g1}
    ELSE IF Rank(card) = "Draw2"
         THEN {next_player(g1) : g1 \in draw_cards(g, next_index(g), 2)}
    ELSE IF is_wild(card) THEN handle_wild_card(g, card)
    ELSE {g}

\* UnoGame._play_card with Player.play_card
play_card(g, p, card) ==
    IF card \notin Range(g.players[p]) THEN {g}
    ELSE LET g1 == [g EXCEPT !.players[p] = Remove(@, card),
                             !.discard_pile = Append(@, card)]
             g2 == Event(g1, "play", p, card, 0, Snap(g))
         IN  IF is_action(card) \/ is_wild(card)
             THEN handle_action_card(g2, card) ELSE {g2}

\* Faulty variant: the player who cannot or will not play draws two cards.
handle_draw_draws_two(g, p) ==
    UNION {
        IF cards_drawn(g1) > 0
        THEN LET drawn_card == g1.players[p][Len(g1.players[p])]
                 top_card == get_top_card(g1)
             IN  IF top_card = None THEN {g1}
                 ELSE UNION {IF yes THEN play_card(g1, p, drawn_card) ELSE {g1} :
                               yes \in should_play_drawn_card(g1, p, drawn_card, top_card)}
        ELSE {g1}
        : g1 \in draw_cards(g, p, 2)}

\* UnoGame._handle_draw
handle_draw(g, p) ==
    UNION {
        IF cards_drawn(g1) > 0
        THEN LET drawn_card == g1.players[p][Len(g1.players[p])]
                 top_card == get_top_card(g1)
             IN  IF top_card = None THEN {g1}
                 ELSE UNION {IF yes THEN play_card(g1, p, drawn_card) ELSE {g1} :
                               yes \in should_play_drawn_card(g1, p, drawn_card, top_card)}
        ELSE {g1}
        : g1 \in draw_cards(g, p, 1)}

\* Faulty variant: the end-of-turn advance is left out.
finish_turn_no_advance(g, p) ==
    IF has_won(g, p) THEN [g EXCEPT !.game_over = TRUE] ELSE g

\* Faulty variant: the end-of-turn advance is made after a win too.
finish_turn_always_advances(g, p) ==
    next_player(IF has_won(g, p) THEN [g EXCEPT !.game_over = TRUE] ELSE g)

\* Lines 377-387 of play_turn: the win check and the end-of-turn advance.
finish_turn(g, p) ==
    LET g1 == IF has_won(g, p) THEN [g EXCEPT !.game_over = TRUE] ELSE g
    IN  IF ~g1.game_over THEN next_player(g1) ELSE g1

\* UnoGame.play_turn: every state one call can end in.
play_turn(g0) ==
    LET p == g0.current_player_index
        g == Event([g0 EXCEPT !.log = <<>>], "turn", p, None, 0, Snap(g0))
        top_card == get_top_card(g)
        playable_cards == get_playable_cards(g, p, top_card)
        moved ==
            IF playable_cards # <<>>
            THEN UNION {IF c # None THEN play_card(g, p, c) ELSE handle_draw(g, p) :
                          c \in choose_card_to_play(g, p, playable_cards, top_card)}
            ELSE handle_draw(g, p)
    IN  IF top_card = None THEN {g}
        ELSE {finish_turn(g1, p) : g1 \in moved}

\* ------------------------------------------------------------------ setup
\* Faulty variant: the first player is dealt a whole hand, then the second.
RECURSIVE deal_hands_in_blocks(_, _)
deal_hands_in_blocks(g, k) ==
    IF k = 0 THEN g
    ELSE LET p == (NumPlayers * HandSize - k) \div HandSize
             r == deal(g.deck)
         IN  deal_hands_in_blocks(IF r.card = None THEN g
                                  ELSE [g EXCEPT !.deck = r.cards,
                                                 !.players[p] = Append(@, r.card)],
                                  k - 1)

\* The dealing loop of _setup_game: k cards still to deal, alternately.
RECURSIVE deal_hands(_, _)
deal_hands(g, k) ==
    IF k = 0 THEN g
    ELSE LET p == (NumPlayers * HandSize - k) % NumPlayers
             r == deal(g.deck)
         IN  deal_hands(IF r.card = None THEN g
                        ELSE [g EXCEPT !.deck = r.cards,
                                       !.players[p] = Append(@, r.card)],
                        k - 1)

\* Faulty variant: only wild cards are turned down.
redraw_wild_only(card) == card # None /\ is_wild(card)

\* The loop condition of _setup_initial_discard.
redraw(card) == card # None /\ (is_wild(card) \/ is_action(card))

\* UnoGame.__init__ up to the call of _setup_game; Deck() shuffles.
Init ==
    /\ deck \in Shuffles([c \in Cards |-> c])
    /\ colour = [c \in Cards |-> create_deck[c].colour]
    /\ players = [p \in 0..(NumPlayers - 1) |-> <<>>]
    /\ discard_pile = <<>>
    /\ current_player_index = 0
    /\ game_over = FALSE
    /\ turn_direction = 1
    /\ pc = "setup_game"
    /\ first_card = None
    /\ turns = 0
    /\ log = <<>>

\* _setup_game: the deal, and the first deal() of _setup_initial_discard.
SetupGame ==
    /\ pc = "setup_game"
    /\ LET g == deal_hands(Game, NumPlayers * HandSize)
           r == deal(g.deck)
       IN  /\ players' = g.players
           /\ deck' = r.cards
           /\ first_card' = r.card
    /\ pc' = "initial_discard"
    /\ UNCHANGED <<discard_pile, colour, current_player_index, turn_direction,
                   game_over, turns, log>>

\* One round of the while loop of _setup_initial_discard.
RedrawFirstCard ==
    /\ pc = "initial_discard"
    /\ redraw(first_card)
    /\ \E d \in Shuffles(<<first_card>> \o deck) :
         /\ deck' = deal(d).cards
         /\ first_card' = deal(d).card
    /\ UNCHANGED <<discard_pile, colour, players, current_player_index,
                   turn_direction, game_over, pc, turns, log>>

\* The loop ends: the card becomes the discard pile, __init__ returns.
PlaceFirstCard ==
    /\ pc = "initial_discard"
    /\ ~redraw(first_card)
    /\ discard_pile' = IF first_card # None THEN Append(discard_pile, first_card)
                       ELSE discard_pile
    /\ pc' = "play"
    /\ UNCHANGED <<deck, colour, players, current_player_index, turn_direction,
                   game_over, first_card, turns, log>>

\* ------------------------------------------------------------------- main
Turn(p) ==
    /\ pc = "play"
    /\ ~game_over
    /\ current_player_index = p
    /\ turns < MaxTurns
    /\ \E g \in play_turn(Game) :
         /\ deck' = g.deck
         /\ discard_pile' = g.discard_pile
         /\ colour' = g.colour
         /\ players' = g.players
         /\ current_player_index' = g.current_player_index
         /\ turn_direction' = g.turn_direction
         /\ game_over' = g.game_over
         /\ log' = g.log
    /\ turns' = turns + 1
    /\ UNCHANGED <<pc, first_card>>

HumanTurn == Turn(0)

ComputerTurn == Turn(1)

\* main: the loop "while not game.is_game_over()" ends.
GameOver ==
    /\ pc = "play"
    /\ game_over
    /\ pc' = "game_over"
    /\ UNCHANGED <<deck, discard_pile, colour, players, current_player_index,
                   turn_direction, game_over, first_card, turns, log>>

Next ==
    \/ SetupGame
    \/ RedrawFirstCard
    \/ PlaceFirstCard
    \/ HumanTurn
    \/ ComputerTurn
    \/ GameOver

Spec == Init /\ [][Next]_vars

\* ================================================================= claims
\* Helpers to read the log of the last play_turn.
AfterSetup == pc \in {"play", "game_over"}
TurnDone == AfterSetup /\ log # <<>>
TurnPlayer == log[1].p
TurnStart == log[1].pre
Steps(kind) == {k \in DOMAIN log : log[k].ev = kind}
Plays == Steps("play")
Top(pile) == pile[Len(pile)]
Other(p) == (p + 1) % NumPlayers
Now == Snap(Game)

\* All the cards of a game state, place after place.
AllCards(s) ==
    s.deck \o s.discard_pile \o Flatten([i \in 1..NumPlayers |-> s.players[i - 1]])

Conserved(s) ==
    /\ Len(AllCards(s)) = TotalCards
    /\ Range(AllCards(s)) = Cards
    /\ Len(s.deck) + Len(s.discard_pile) + Len(s.players[0]) + Len(s.players[1])
         = TotalCards

\* C1: once setup has completed, and before and after every step of every
\* play_turn (plays, single and forced draws, successful and failed
\* reshuffles), every card of the deck built by _create_deck is in exactly one
\* of the deck, the discard pile and the hands, so the sizes add up to the
\* size of the full deck.
C1_CardConservation ==
    AfterSetup =>
        /\ Conserved(Now)
        /\ \A k \in DOMAIN log : Conserved(log[k].pre) /\ Conserved(log[k].post)

\* A turn with a forced draw that reshuffled and then ran out of cards.
C1_Witness ==
    /\ TurnDone
    /\ Plays # {}
    /\ Steps("reshuffle") # {}
    /\ Steps("reshuffle_failed") # {}

PlayedCard == log[CHOOSE k \in Plays : TRUE].card
PlayedRank == Rank(PlayedCard)
\* The current player played a card and holds no card at the end of the turn.
WonByPlay == TurnDone /\ Plays # {} /\ players[TurnPlayer] = <<>>

\* C2 as stated: a play that empties the hand ends the game with the pointer
\* still on the player who played, whatever the rank of the card.
C2_PointerStaysOnWinner ==
    WonByPlay => game_over /\ current_player_index = TurnPlayer

\* C2 amended: a play that empties the hand ends the game and the end-of-turn
\* advance is not made: the pointer is where the card's own effect left it,
\* on the player who played for a number card or a Wild, and one step further
\* in turn order (the other player) for Skip, Reverse, Draw2 and Draw4.
C2_WinStopsEndOfTurnAdvance ==
    WonByPlay =>
        /\ game_over
        /\ current_player_index =
             IF PlayedRank \in {"Skip", "Reverse", "Draw2", "Draw4"}
             THEN Other(TurnPlayer) ELSE TurnPlayer

C2_Witness == WonByPlay /\ PlayedRank = "Draw2" /\ game_over

\* The cards a forced draw can reach when the card log[k] was played: the deck
\* and the discard pile below the played card.
Reachable(k) == Len(log[k].pre.deck) + Len(log[k].pre.discard_pile)
Min(a, b) == IF a < b THEN a ELSE b
Forced(rank) == IF rank = "Draw2" THEN 2 ELSE 4
Gained(p) == Len(players[p]) - Len(TurnStart.players[p])

\* C3 as stated: a Draw2 (Draw4) gives the next player exactly 2 (4) cards and
\* the player who played it none.
C3_ForcedDrawExact ==
    TurnDone =>
        \A k \in Plays :
            Rank(log[k].card) \in {"Draw2", "Draw4"} =>
                /\ Len(players[Other(log[k].p)])
                     = Len(log[k].pre.players[Other(log[k].p)]) + Forced(Rank(log[k].card))
                /\ players[log[k].p] = log[k].post.players[log[k].p]

\* C3 amended: the next player receives exactly 2 (4) cards when the deck and
\* the discard pile below the played card together hold at least 2 (4) cards,
\* and otherwise all the cards they hold; the player who played receives none.
C3_ForcedDrawUpToAvailable ==
    TurnDone =>
        \A k \in Plays :
            Rank(log[k].card) \in {"Draw2", "Draw4"} =>
                /\ Len(players[Other(log[k].p)])
                     = Len(log[k].pre.players[Other(log[k].p)])
                       + Min(Forced(Rank(log[k].card)), Reachable(k))
                /\ players[log[k].p] = log[k].post.players[log[k].p]

\* A Draw4 of which the next player could draw only a part.
C3_Witness ==
    /\ TurnDone
    /\ \E k \in Plays :
         /\ Rank(log[k].card) = "Draw4"
         /\ Reachable(k) < 4
         /\ Len(players[Other(log[k].p)]) > Len(log[k].pre.players[Other(log[k].p)])

\* C4: after a turn in which the current player plays Skip, Draw2 or Draw4,
\* from the hand or right after drawing it, and does not win, the pointer is
\* on that player again, and the next play_turn is that player's.
C4_SkippedTurn ==
    /\ [](TurnDone /\ Plays # {} /\ ~game_over
            /\ PlayedRank \in {"Skip", "Draw2", "Draw4"}
          => current_player_index = TurnPlayer)
    /\ [][(TurnDone /\ Plays # {} /\ ~game_over
             /\ PlayedRank \in {"Skip", "Draw2", "Draw4"} /\ turns' = turns + 1)
          => log'[1].p = TurnPlayer]_vars

\* A Draw2 drawn and played at once, by a player who then plays again.
C4_Witness ==
    /\ TurnDone /\ Plays # {} /\ ~game_over
    /\ PlayedRank = "Draw2"
    /\ Steps("deal") # {} /\ log[2].ev = "deal"
    /\ turns < MaxTurns

\* The pointer a Skip played at the step log[k] would leave at the end of the
\* turn.
SkipPointer(k) ==
    finish_turn(next_player(log[k].post), log[k].p).current_player_index

\* C5: after a turn in which the current player plays Reverse and does not
\* win, turn_direction is the negation of its value before the turn, and the
\* pointer is on the player who played, as a Skip would have left it.
C5_ReverseTwoPlayers ==
    /\ [](TurnDone /\ Plays # {} /\ ~game_over /\ PlayedRank = "Reverse"
          => /\ turn_direction = -TurnStart.turn_direction
             /\ current_player_index = TurnPlayer
             /\ current_player_index = SkipPointer(CHOOSE k \in Plays : TRUE))
    /\ [][(TurnDone /\ Plays # {} /\ ~game_over /\ PlayedRank = "Reverse"
             /\ turns' = turns + 1)
          => log'[1].p = TurnPlayer]_vars

\* A Reverse played while the direction was already -1.
C5_Witness ==
    /\ TurnDone /\ Plays # {} /\ ~game_over
    /\ PlayedRank = "Reverse"
    /\ TurnStart.turn_direction = -1
    /\ turn_direction = 1

\* C6: after every play_turn game_over is true exactly when some hand is
\* empty; it is true only after a turn in which the current player played a
\* card; once true it stays true and no further turn is run.
C6_GameOverState ==
    /\ [](AfterSetup =>
            /\ game_over <=> \E p \in DOMAIN players : players[p] = <<>>
            /\ game_over => Plays # {} /\ players[TurnPlayer] = <<>>)
    /\ [][game_over => game_over' /\ turns' = turns /\ players' = players]_vars

\* The game was won with a Draw2, after which the loser drew and main left
\* its loop.
C6_Witness ==
    /\ pc = "game_over" /\ game_over
    /\ Plays # {} /\ PlayedRank = "Draw2"
    /\ Steps("deal") # {}
    /\ players[TurnPlayer] = <<>>

\* C7: every card play_turn moves onto the discard pile was in the hand of the
\* current player and passed can_play_on against the card then on top of the
\* discard pile.
C7_LegalPlaysOnly ==
    TurnDone =>
        /\ \A k \in Plays :
            /\ log[k].p = TurnPlayer
            /\ log[k].card \in Range(log[k].pre.players[TurnPlayer])
            /\ can_play_on(log[k].pre.colour, log[k].card, Top(log[k].pre.discard_pile))
            /\ log[k].post.discard_pile = Append(log[k].pre.discard_pile, log[k].card)
        /\ \A c \in Range(TurnStart.players[TurnPlayer]) \ Range(players[TurnPlayer]) :
             \E k \in Plays : log[k].card = c

\* The human plays a card drawn from a deck a reshuffle had just refilled,
\* while holding a card that is not legal.
C7_Witness ==
    /\ TurnDone /\ Plays # {}
    /\ TurnPlayer = 0
    /\ Steps("reshuffle") # {}
    /\ \E k \in Plays :
         /\ \E j \in Steps("reshuffle") : j < k
         /\ \E c \in Range(log[k].pre.players[0]) :
              ~can_play_on(log[k].pre.colour, c, Top(log[k].pre.discard_pile))

\* C8: when setup completes the discard pile is one number card, never a
\* Skip, Reverse, Draw2, Wild or Draw4, and every candidate that was turned
\* down went back into the deck.
C8_InitialTopCard ==
    /\ [](pc = "play" /\ turns = 0 =>
            /\ Len(discard_pile) = 1
            /\ is_number(discard_pile[1])
            /\ Rank(discard_pile[1]) \notin {"Skip", "Reverse", "Draw2", "Wild", "Draw4"}
            /\ \A c \in Cards : is_wild(c) \/ is_action(c) =>
                 c \in Range(deck) \cup Range(players[0]) \cup Range(players[1]))
    /\ [][pc = "initial_discard" /\ pc' = "initial_discard"
          => /\ is_wild(first_card) \/ is_action(first_card)
             /\ first_card \in Range(deck') \cup {first_card'}
             /\ Range(deck') \cup {first_card'} = Range(deck) \cup {first_card}]_vars
    /\ [][pc = "initial_discard" /\ pc' = "play"
          => discard_pile' = <<first_card>> /\ deck' = deck]_vars

\* Setup completed with every wild and action card outside the hands back in
\* the deck.
C8_Witness ==
    /\ pc = "play" /\ turns = 0
    /\ discard_pile = <<first_card>>
    /\ \E c \in Range(deck) : is_wild(c)
    /\ \E c \in Range(deck) : is_action(c) /\ ~is_wild(c)

Reshuffles == Steps("reshuffle") \cup Steps("reshuffle_failed")
Below(pile) == SubSeq(pile, 1, Len(pile) - 1)

\* C9: a reshuffle is made only by a draw that finds the deck empty; with k > 1
\* cards in the discard pile it puts exactly the k-1 cards below the top into
\* the deck, every Wild/Draw4 among them BLACK, leaves the discard pile as the
\* former top card with its colour unchanged, and the draw then succeeds.
C9_SuccessfulReshuffle ==
    TurnDone =>
        /\ \A k \in Reshuffles :
             /\ log[k].pre.deck = <<>>
             /\ log[k].ev = "reshuffle" <=> Len(log[k].pre.discard_pile) > 1
             /\ \E j \in Steps("draw") : j > k
        /\ \A k \in Steps("deal") : log[k].pre.deck # <<>>
        /\ \A k \in Steps("reshuffle") :
             LET pre == log[k].pre
                 post == log[k].post
                 moved == Below(pre.discard_pile)
             IN  /\ Len(post.deck) = Len(pre.discard_pile) - 1
                 /\ Range(post.deck) = Range(moved)
                 /\ \A c \in Range(moved) :
                      post.colour[c] = IF is_wild(c) THEN BLACK ELSE pre.colour[c]
                 /\ post.discard_pile = <<Top(pre.discard_pile)>>
                 /\ post.colour[Top(pre.discard_pile)] = pre.colour[Top(pre.discard_pile)]
                 /\ post.players = pre.players
                 /\ log[k + 1].ev = "deal"
                 /\ log[k + 1].card \in Range(moved)

\* A reshuffle that takes a played wild back into the deck while the card on
\* top is a wild with an assigned colour.
C9_Witness ==
    /\ TurnDone
    /\ \E k \in Steps("reshuffle") :
         /\ \E c \in Range(Below(log[k].pre.discard_pile)) :
              is_wild(c) /\ log[k].pre.colour[c] # BLACK
         /\ is_wild(Top(log[k].pre.discard_pile))
         /\ Len(log[k].pre.discard_pile) > 2

\* The steps of the _draw_cards call that ends at log[k]: the steps after the
\* last step before k that is no deal and no reshuffle.
BatchOf(k) ==
    {j \in 1..(k - 1) :
        /\ log[j].ev \in {"deal", "reshuffle", "reshuffle_failed"}
        /\ \A i \in (j + 1)..(k - 1) :
             log[i].ev \in {"deal", "reshuffle", "reshuffle_failed"}}

RECURSIVE DealtIn(_, _)
\* The cards dealt by the steps from..k-1 of the log, in order.
DealtIn(from, k) ==
    IF from >= k THEN <<>>
    ELSE (IF log[from].ev = "deal" THEN <<log[from].card>> ELSE <<>>)
         \o DealtIn(from + 1, k)

\* C10: a draw that finds the deck empty and at most one card in the discard
\* pile fails: the attempt changes nothing, the batch ends there with fewer
\* cards than asked for, the cards drawn earlier in the batch stay in the hand,
\* and the game goes on with game_over unchanged.
C10_FailedReshuffle ==
    TurnDone =>
        /\ \A k \in Reshuffles :
             Len(log[k].pre.discard_pile) <= 1 => log[k].ev = "reshuffle_failed"
        /\ \A k \in Steps("reshuffle_failed") :
             /\ log[k].pre.deck = <<>> /\ Len(log[k].pre.discard_pile) <= 1
             /\ log[k].post = log[k].pre
             /\ log[k + 1].ev = "draw"
             /\ log[k + 1].post = log[k].post
             /\ log[k + 1].got < log[k + 1].n
        /\ \A k \in Steps("draw") :
             LET first == IF BatchOf(k) = {} THEN k
                          ELSE CHOOSE j \in BatchOf(k) : \A i \in BatchOf(k) : j <= i
                 p == log[k].p
             IN  /\ log[k].post.players[p]
                      = log[k].pre.players[p] \o DealtIn(first, k)
                 /\ log[k].got = Len(DealtIn(first, k))
                 /\ log[k].got <= log[k].n
                 /\ log[k].got < log[k].n => log[k - 1].ev = "reshuffle_failed"
                 /\ log[k].post.players[Other(p)] = log[k].pre.players[Other(p)]
                 /\ log[k].post.game_over = log[k].pre.game_over
                 /\ log[k].post.current_player_index = log[k].pre.current_player_index

\* A forced draw that failed after a part of the cards had been drawn, in a
\* game that goes on.
C10_Witness ==
    /\ TurnDone /\ ~game_over
    /\ \E k \in Steps("reshuffle_failed") :
         /\ log[k + 1].n = 4
         /\ log[k + 1].got \in 1..3

\* The positions of a hand whose card may be played on top, in the state s.
Legal(s, hand, top) == {i \in DOMAIN hand : can_play_on(s.colour, hand[i], top)}
\* The card at the least position of a non-empty set of positions.
FirstOf(hand, S) == hand[CHOOSE i \in S : \A j \in S : i <= j]
\* The card the stated priority gives for a hand with a legal play.
Priority(s, hand, top) ==
    LET legal == Legal(s, hand, top)
        same == {i \in legal : ~is_wild(hand[i]) /\ s.colour[hand[i]] = s.colour[top]}
        same_numbers == {i \in same : is_number(hand[i])}
        numbers == {i \in legal : is_number(hand[i])}
        actions == {i \in legal : ~is_wild(hand[i]) /\ ~is_number(hand[i])}
        wilds == {i \in legal : is_wild(hand[i])}
    IN  IF same_numbers # {} THEN FirstOf(hand, same_numbers)
        ELSE IF same # {} THEN FirstOf(hand, same)
        ELSE IF numbers # {} THEN FirstOf(hand, numbers)
        ELSE IF actions # {} THEN FirstOf(hand, actions)
        ELSE FirstOf(hand, wilds)
\* The players that are a ComputerPlayer.
Computers == {p \in DOMAIN players : ~IsHuman(p)}
\* The computer's turn began with a legal play in its hand.
ComputerHadPlay ==
    /\ TurnDone
    /\ ~IsHuman(TurnPlayer)
    /\ Legal(TurnStart, TurnStart.players[TurnPlayer], Top(TurnStart.discard_pile)) # {}

\* C11: for every hand the computer holds and every top card it meets, with
\* at least one legal play, ComputerPlayer.choose_card_to_play returns the
\* card of the priority: the
\* first number card among the legal non-wild cards of the top card's colour,
\* else the first of those, else the first legal number card, else the first
\* legal non-wild action card, else the first wild; it is the card the
\* computer plays in a turn that begins with a legal play.
C11_ComputerChoice ==
    /\ (AfterSetup /\ discard_pile # <<>>) =>
         \A p \in Computers :
            Legal(Now, players[p], Top(discard_pile)) # {} =>
                computer_choose_card(Game,
                    get_playable_cards(Game, p, Top(discard_pile)),
                    Top(discard_pile))
                  = Priority(Now, players[p], Top(discard_pile))
    /\ ComputerHadPlay =>
         /\ Len(log) >= 2 /\ log[2].ev = "play" /\ log[2].p = TurnPlayer
         /\ log[2].card = Priority(TurnStart, TurnStart.players[TurnPlayer],
                                   Top(TurnStart.discard_pile))

\* The computer held a legal action card of the top card's colour before a
\* legal number card of that colour, and played the number card.
C11_Witness ==
    /\ ComputerHadPlay
    /\ LET hand == TurnStart.players[TurnPlayer]
           top == Top(TurnStart.discard_pile)
       IN  \E i, j \in Legal(TurnStart, hand, top) :
              /\ i < j
              /\ is_action(hand[i]) /\ ~is_wild(hand[i]) /\ is_number(hand[j])
              /\ TurnStart.colour[hand[i]] = TurnStart.colour[top]
              /\ TurnStart.colour[hand[j]] = TurnStart.colour[top]
              /\ log[2].card = hand[j]

\* The stated condition for playing a on b under the colours col.
Matches(col, a, b) ==
    IF Rank(a) = "Wild" \/ Rank(a) = "Draw4" THEN TRUE
    ELSE IF col[a] = col[b] THEN TRUE
    ELSE Rank(a) = Rank(b)

\* C12: Card.can_play_on(a, b) is true exactly when a and b have the same
\* colour, or the same rank, or a is a Wild or a Draw4: for every pair of
\* cards as the deck is created, and for every card a against a played wild b
\* on top of the discard pile, with the colour b was assigned; in every state
\* the legal cards of a hand are the cards for which this holds against the
\* top card.
C12_CanPlayOn ==
    /\ pc = "setup_game" =>
          \A a, b \in Cards : can_play_on(colour, a, b) <=> Matches(colour, a, b)
    /\ (discard_pile # <<>> /\ is_wild(Top(discard_pile))) =>
          \A a \in Cards :
             can_play_on(colour, a, Top(discard_pile))
               <=> Matches(colour, a, Top(discard_pile))
    /\ (AfterSetup /\ discard_pile # <<>>) =>
          \A p \in DOMAIN players :
             Range(get_playable_cards(Game, p, Top(discard_pile)))
               = {a \in Range(players[p]) : Matches(colour, a, Top(discard_pile))}

\* A turn that began on a played wild with an assigned colour: the player
\* held a card that did not go on it and played one of the assigned colour.
C12_Witness ==
    /\ TurnDone
    /\ LET top == Top(TurnStart.discard_pile)
           col == TurnStart.colour
           hand == TurnStart.players[TurnPlayer]
       IN  /\ is_wild(top) /\ col[top] \in Range(COLOURS)
           /\ \E a \in Range(hand) : ~can_play_on(col, a, top)
           /\ Len(log) >= 2 /\ log[2].ev = "play"
           /\ ~is_wild(log[2].card)
           /\ col[log[2].card] = col[top]

\* C13: the deck is created with NumColours * (1 + Copies * (MaxNumber + 3))
\* + 2 * WildCopies cards (108 at full size); _setup_game deals HandSize (7)
\* cards to each of the two players alternately, one at a time from the end of
\* the shuffled deck; when setup completes each hand still holds HandSize
\* cards, the deck holds all the remaining cards but the one on the discard
\* pile (93 at full size), current_player_index is 0, turn_direction is +1 and
\* game_over is false.
C13_SetupDeal ==
    [][/\ pc = "setup_game" =>
            /\ Len(deck) = TotalCards
            /\ TotalCards = NumColours * (1 + Copies * (MaxNumber + 3))
                              + 2 * WildCopies
            /\ \A p \in DOMAIN players :
                  /\ Len(players'[p]) = HandSize
                  /\ \A i \in 1..HandSize :
                        players'[p][i] = deck[TotalCards - (NumPlayers * (i - 1) + p)]
       /\ (pc = "initial_discard" /\ pc' = "play") =>
            /\ \A p \in DOMAIN players : Len(players'[p]) = HandSize
            /\ Len(deck') = TotalCards - NumPlayers * HandSize - 1
            /\ Len(discard_pile') = 1
            /\ current_player_index' = 0
            /\ turn_direction' = 1
            /\ game_over' = FALSE]_vars

\* Setup has completed and no turn was played: both hands are full and the
\* next card of the deck is an action card.
C13_Witness ==
    /\ pc = "play" /\ turns = 0
    /\ \A p \in DOMAIN players : Len(players[p]) = HandSize
    /\ Len(deck) = TotalCards - NumPlayers * HandSize - 1
    /\ is_action(deck[Len(deck)])

\* C14: once setup has completed the discard pile is never empty: not at the
\* start of a play_turn, so that the branch 'No top card available' is never
\* taken and every turn makes a play or a draw, and not before or after any
\* play, draw or reshuffle of a turn.
C14_TopCardExists ==
    AfterSetup =>
        /\ discard_pile # <<>>
        /\ \A k \in DOMAIN log :
              log[k].pre.discard_pile # <<>> /\ log[k].post.discard_pile # <<>>
        /\ TurnDone =>
              /\ get_top_card(TurnStart) # None
              /\ Steps("play") \cup Steps("draw") # {}

\* A turn whose own draw reshuffled the pile down to its top card, and the
\* drawn card was played on it.
C14_Witness ==
    /\ TurnDone
    /\ \E k \in Steps("reshuffle") : \E j \in Plays :
          /\ k < j
          /\ Len(log[k].pre.discard_pile) > 2
          /\ Len(log[k].post.discard_pile) = 1
    /\ Len(discard_pile) = 2

\* The cards of the deck and of the hands of a game state.
OffPile(s) == Range(s.deck) \cup UNION {Range(s.players[p]) : p \in DOMAIN s.players}
WildCards == {c \in Cards : is_wild(c)}
\* Every wild of the state s is BLACK unless it is in the discard pile, and is
\* BLACK in the deck and in the hands.
WildsNeutral(s) ==
    \A c \in WildCards :
       s.colour[c] = BLACK \/ (c \in Range(s.discard_pile) /\ c \notin OffPile(s))
OtherCards == Cards \ WildCards
\* Every card of another rank has one of the colours of COLOURS.
OthersColoured(s) == \A c \in OtherCards : s.colour[c] \in Range(COLOURS)
ColourNeutral(s) == WildsNeutral(s) /\ OthersColoured(s)

\* C15: in every state every Wild and Draw4 in the deck or in a hand has the
\* colour BLACK, every card of another rank has one of the colours of COLOURS,
\* and a wild that carries an assigned colour is in the discard pile; the
\* same holds of the wilds after every step of a turn, and of the other cards
\* after the steps that write colours (a colour choice, a reshuffle).
C15_ColourNeutralWilds ==
    /\ ColourNeutral(Now)
    /\ first_card # None => (is_wild(first_card) => colour[first_card] = BLACK)
    /\ \A k \in DOMAIN log : WildsNeutral(log[k].post)
    /\ \A k \in Steps("colour") \cup Steps("reshuffle") : OthersColoured(log[k].post)

\* A wild that was played and given a colour went back into the deck in a
\* reshuffle and is now in the deck or in a hand.
C15_Witness ==
    /\ TurnDone
    /\ \E k \in Steps("reshuffle") : \E c \in OffPile(Now) :
          /\ is_wild(c)
          /\ log[k].pre.colour[c] \in Range(COLOURS)
          /\ c \in Range(log[k].pre.discard_pile)
          /\ colour[c] = BLACK

\* The top card of the state s has one of the colours of COLOURS.
LiveColour(s) == s.colour[Top(s.discard_pile)] \in Range(COLOURS)
WildPlays == {k \in Plays : is_wild(log[k].card)}

\* C16: whenever a play_turn may start, and at every step of a turn where
\* legal plays are computed (the start of the turn, and after the draws and
\* reshuffles of the turn), the top card's colour is one of COLOURS, never
\* BLACK; only between the play of a wild and the assignment of its colour is
\* the top card BLACK.  After a Wild or Draw4 is played it is the top card and
\* its colour is a colour choose_wild_colour returns to the player who played
\* it, for the hand that player holds then, until the end of the turn.
C16_LiveColour ==
    (AfterSetup /\ discard_pile # <<>>) =>
        /\ LiveColour(Now)
        /\ \A k \in DOMAIN log : k \notin WildPlays => LiveColour(log[k].post)
        /\ \A k \in WildPlays :
              /\ k + 1 \in Steps("colour")
              /\ log[k + 1].p = log[k].p
              /\ log[k + 1].card = log[k].card
              /\ log[k + 1].post.colour[log[k].card]
                   \in choose_wild_colour(log[k].post, log[k].p)
              /\ Top(discard_pile) = log[k].card
              /\ colour[log[k].card] = log[k + 1].post.colour[log[k].card]

\* The computer played a Draw4 and chose a colour other than the first one;
\* the forced draw reshuffled the pile under the Draw4.
C16_Witness ==
    /\ TurnDone
    /\ ~IsHuman(TurnPlayer)
    /\ \E k \in WildPlays :
          /\ Rank(log[k].card) = "Draw4"
          /\ colour[log[k].card] # COLOURS[1]
    /\ Steps("reshuffle") # {}

\* The ranks of the cards played in a log.
RanksPlayed(l) == {Rank(l[k].card) : k \in {j \in DOMAIN l : l[j].ev = "play"}}
\* A log of a turn with no play, or the play of a number card or of a Wild.
Ordinary(l) == RanksPlayed(l) \subseteq (Range(NUMBER_RANKS) \cup {"Wild"})

\* C17: a play_turn in which the current player does not win and plays a
\* number card, plays a Wild, or draws without playing ends with the pointer
\* at (current_player_index + turn_direction) mod 2, the other player, and
\* with turn_direction unchanged; turn_direction is always +1 or -1 and
\* changes only in a play_turn in which a Reverse is played.
C17_OrdinaryAdvance ==
    [][/\ turn_direction \in {1, -1} /\ turn_direction' \in {1, -1}
       /\ turn_direction' # turn_direction =>
             /\ pc = "play" /\ turns' = turns + 1
             /\ "Reverse" \in RanksPlayed(log')
       /\ (/\ pc = "play" /\ turns' = turns + 1
           /\ players'[current_player_index] # <<>>
           /\ Ordinary(log')) =>
             /\ current_player_index'
                  = (current_player_index + turn_direction) % NumPlayers
             /\ current_player_index' = Other(current_player_index)
             /\ ~game_over'
             /\ turn_direction' = turn_direction]_vars

\* After an earlier Reverse the direction is -1; a player drew a Wild, played
\* it without winning, and the pointer is on the other player.
C17_Witness ==
    /\ TurnDone
    /\ turn_direction = -1 /\ TurnStart.turn_direction = -1
    /\ Steps("draw") # {}
    /\ RanksPlayed(log) = {"Wild"}
    /\ players[TurnPlayer] # <<>>
    /\ current_player_index = Other(TurnPlayer)

IsPrefix(s, t) == Len(s) <= Len(t) /\ SubSeq(t, 1, Len(s)) = s
\* The cards dealt to player p in the turn, in the order of the deals.
RECURSIVE DealtTo(_, _)
DealtTo(p, k) ==
    IF k = 0 THEN <<>>
    ELSE DealtTo(p, k - 1)
           \o (IF log[k].ev = "deal" /\ log[k].p = p THEN <<log[k].card>> ELSE <<>>)
\* A Draw2 or Draw4 was played by p before step k of the turn.
ForcedBefore(p, k) ==
    \E j \in Plays : j < k /\ log[j].p = p /\ Rank(log[j].card) \in {"Draw2", "Draw4"}

\* C18: in a play_turn of P the other player's hand never loses a card and
\* gains cards only in the forced draw of a Draw2 or Draw4 that P has played
\* in that turn; P's hand changes only by at most one drawn card added at its
\* end and by the one card P plays taken out; only P plays, at most one card
\* per turn, and no card but the played card comes onto the discard pile.
C18_HandOwnership ==
    TurnDone =>
        LET P == TurnPlayer
            O == Other(TurnPlayer)
            drawn == DealtTo(P, Len(log))
        IN  /\ \A k \in DOMAIN log :
                  /\ IsPrefix(log[k].pre.players[O], log[k].post.players[O])
                  /\ log[k].post.players[O] # log[k].pre.players[O] =>
                        /\ log[k].ev \in {"deal", "draw"}
                        /\ log[k].p = O
                        /\ ForcedBefore(P, k)
                  /\ log[k].post.discard_pile =
                        IF k \in Plays THEN Append(log[k].pre.discard_pile, log[k].card)
                        ELSE IF Len(log[k].post.discard_pile) < Len(log[k].pre.discard_pile)
                             THEN <<Top(log[k].pre.discard_pile)>>
                             ELSE log[k].pre.discard_pile
            /\ players[O] = TurnStart.players[O] \o DealtTo(O, Len(log))
            /\ Len(drawn) <= 1
            /\ Cardinality(Plays) <= 1
            /\ \A k \in Plays : log[k].p = P
            /\ players[P] = IF Plays = {} THEN TurnStart.players[P] \o drawn
                            ELSE Remove(TurnStart.players[P] \o drawn, PlayedCard)
            /\ Cardinality(Range(discard_pile) \ Range(TurnStart.discard_pile)) <= 1

\* P drew a Draw2 or Draw4 and played it: P's hand is as it was and the other
\* player's hand has grown by the forced draw.
C18_Witness ==
    /\ TurnDone
    /\ Len(DealtTo(TurnPlayer, Len(log))) = 1
    /\ Plays # {}
    /\ PlayedRank \in {"Draw2", "Draw4"}
    /\ players[TurnPlayer] = TurnStart.players[TurnPlayer]
    /\ Len(players[Other(TurnPlayer)]) > Len(TurnStart.players[Other(TurnPlayer)])

\* The number of cards of colour c in a hand under the colours col.
Count(col, hand, c) == Len(SelectSeq(hand, LAMBDA x : col[x] = c))
\* The stated choice: the colour with the highest count, the earliest of
\* COLOURS on a tie, RED for a hand with no coloured card.
MostFrequent(col, hand) ==
    LET count == [i \in DOMAIN COLOURS |-> Count(col, hand, COLOURS[i])]
    IN  IF \A i \in DOMAIN COLOURS : count[i] = 0 THEN "RED"
        ELSE COLOURS[CHOOSE i \in DOMAIN COLOURS :
                       /\ \A j \in DOMAIN COLOURS : count[j] <= count[i]
                       /\ \A j \in 1..(i - 1) : count[j] < count[i]]
\* The steps of the turn at which the computer chose the colour of a wild.
ComputerColours == {k \in Steps("colour") : ~IsHuman(log[k].p)}

\* C19: ComputerPlayer.choose_wild_colour returns, for every hand the
\* computer holds in any state, the colour of COLOURS with the highest count
\* in the hand, the earliest in the order
\* RED, GREEN, BLUE, YELLOW on a tie, and RED for a hand with no coloured
\* card; the colour the computer gives a wild it plays is this colour for the
\* hand it holds once the wild is removed.
C19_ComputerWildColour ==
    /\ \A p \in Computers :
          computer_choose_wild_colour(Game, p) = MostFrequent(colour, players[p])
    /\ \A k \in ComputerColours :
          /\ log[k].card \notin Range(log[k].pre.players[log[k].p])
          /\ log[k].post.colour[log[k].card]
               = MostFrequent(log[k].pre.colour, log[k].pre.players[log[k].p])

\* The computer played a wild and chose a colour that is not the first of
\* COLOURS, of which it then held more cards than of any earlier colour.
C19_Witness ==
    /\ TurnDone
    /\ \E k \in ComputerColours :
          /\ log[k].post.colour[log[k].card] # COLOURS[1]
          /\ Count(log[k].pre.colour, log[k].pre.players[log[k].p],
                   log[k].post.colour[log[k].card]) > 0

\* The calls of _draw_cards for the player p in the turn.
DrawsOf(p) == {k \in Steps("draw") : log[k].p = p}

\* C20: in every turn of the computer that begins with a legal card in its
\* hand it plays a card of its hand that is legal, first thing, and does not
\* draw, and choose_card_to_play does not return None; in every turn that
\* begins with none it draws once, one card, which it gets whenever the deck
\* or the pile under the top card has a card, and it plays the drawn card at
\* once exactly when the card is legal on the top card, and plays nothing else.
C20_ComputerNeverPasses ==
    (TurnDone /\ ~IsHuman(TurnPlayer)) =>
        LET P == TurnPlayer
            hand == TurnStart.players[P]
            top == Top(TurnStart.discard_pile)
            legal == Legal(TurnStart, hand, top)
        IN  IF legal # {}
            THEN /\ computer_choose_card(TurnStart,
                        SelectSeq(hand, LAMBDA c : Matches(TurnStart.colour, c, top)),
                        top) # None
                 /\ log[2].ev = "play" /\ log[2].p = P
                 /\ \E i \in legal : log[2].card = hand[i]
                 /\ DrawsOf(P) = {}
                 /\ DealtTo(P, Len(log)) = <<>>
            ELSE /\ Cardinality(DrawsOf(P)) = 1
                 /\ \A k \in DrawsOf(P) :
                       /\ log[k].n = 1
                       /\ log[k].pre = TurnStart
                       /\ log[k].got = IF TurnStart.deck # <<>>
                                          \/ Len(TurnStart.discard_pile) > 1
                                       THEN 1 ELSE 0
                       /\ log[k].got = 0 => Plays = {}
                       /\ log[k].got = 1 =>
                             LET s == log[k].post
                                 drawn == Top(s.players[P])
                             IN  /\ DealtTo(P, Len(log)) = <<drawn>>
                                 /\ Plays # {} <=>
                                      Matches(s.colour, drawn, Top(s.discard_pile))
                                 /\ Plays # {} =>
                                      /\ Plays = {k + 1}
                                      /\ PlayedCard = drawn

\* The computer had no legal card and the deck was empty: the pile was
\* reshuffled, the computer drew a legal card and played it.
C20_Witness ==
    /\ TurnDone /\ ~IsHuman(TurnPlayer)
    /\ Legal(TurnStart, TurnStart.players[TurnPlayer], Top(TurnStart.discard_pile)) = {}
    /\ TurnStart.deck = <<>>
    /\ Steps("reshuffle") # {}
    /\ Plays # {}
    /\ PlayedCard = Top(TurnStart.players[TurnPlayer] \o DealtTo(TurnPlayer, Len(log)))

====
